---------------------------- MODULE Spec2Model ----------------------------
(***************************************************************************)
(* Model of tools/fit-dtm.py: the multiresolution "inverted cloth" fit of  *)
(* a terrain model (DTM) under a surface model (DSM).                      *)
(*                                                                         *)
(* Rasters.  A numpy array of shape (rows, cols) is the record             *)
(* [rows, cols, cell], cell[i][j] with 1-based i, j (numpy's [i-1, j-1]).  *)
(* The shape is kept beside the cells because numpy keeps the column count *)
(* of an array that has no rows (dtm[:-1, :] of a one-row array).          *)
(*                                                                         *)
(* Numbers.  Elevations are fixed-point integers; the quotients the code   *)
(* takes in floating point (the step, the mean of the 3x3 window) are      *)
(* rounded down to the fixed-point resolution.  One elevation unit of the  *)
(* inputs is Unit resolution steps: the steps of the explored pyramids are *)
(* exact, and the smallest of them is 1000 times the rounding of a mean.   *)
(*                                                                         *)
(* Aliasing.  downsample returns a numpy view: dtm[::2, ::2] shares the    *)
(* memory of dtm.  The model keeps one DTM buffer (dtmBuf, the array that  *)
(* fit_dtm allocates, or the array a direct caller passes) and one DSM     *)
(* array (dsmRaster); the dtm/dsm parameters of the recursion frame at     *)
(* depth d are the views ViewOf(dtmBuf, d) and ViewOf(dsmRaster, d), and   *)
(* an in-place numpy operation on a view is a StoreView into the buffer.   *)
(***************************************************************************)
EXTENDS Integers, Sequences, FiniteSets, TLC

(***************************************************************************)
(* Bounds of the explored inputs.                                          *)
(***************************************************************************)
\* largest number of rows and of columns of a raster whose cells are explored
MaxDim == 3
\* The raster-level specifications explore pyramids on rasters of at most
\* MaxDim x MaxDim cells, so the size above which a level is downsampled is
\* scaled down there; the shape-level specification SpecPyramid uses the
\* source's own threshold, MIN_SIZE.
LevelMin == 1

(***************************************************************************)
(* Program constants.                                                      *)
(***************************************************************************)
\* recursive_fit_dtm: "if numpy.min(dtm.shape) > 100"
MIN_SIZE == 100
\* recursive_fit_dtm: drape_cloth(dtm, dsm, step, 100) and int(100 / 2**k)
BASE_ITER == 100
\* drape_cloth: "for i in range(10)"
INNER_ITER == 10
\* fit_dtm: step = (maxv - minv) / 100
RANGE_STEPS == 100
\* uniform_filter(dtm, size=3)
FILTER_SIZE == 3

\* one elevation unit of the inputs, in fixed-point resolution steps
Unit == 8 * RANGE_STEPS * 1000
Ground == Unit
Roof == 2 * Unit
Heights == {Ground, Roof}
\* sentinels below and above every elevation
NoDataVals == {0 - Unit, 3 * Unit}

(***************************************************************************)
(* Arithmetic helpers.                                                     *)
(***************************************************************************)
Min2(a, b) == IF a <= b THEN a ELSE b

Max2(a, b) == IF a >= b THEN a ELSE b

RECURSIVE Pow2(_)
Pow2(k) == IF k <= 0 THEN 1 ELSE 2 * Pow2(k - 1)

RECURSIVE SetMin(_)
SetMin(S) ==
  LET x == CHOOSE y \in S : TRUE
  IN IF S = {x} THEN x ELSE Min2(x, SetMin(S \ {x}))

RECURSIVE SetMax(_)
SetMax(S) ==
  LET x == CHOOSE y \in S : TRUE
  IN IF S = {x} THEN x ELSE Max2(x, SetMax(S \ {x}))

(***************************************************************************)
(* numpy arrays.                                                           *)
(***************************************************************************)
MkRaster(h, w, F(_, _)) ==
  [rows |-> h, cols |-> w,
   cell |-> [i \in 1..h |-> [j \in 1..w |-> F(i, j)]]]

Shape(r) == <<r.rows, r.cols>>

\* numpy.min(dtm.shape)
MinSide(r) == Min2(r.rows, r.cols)

CellValues(r) == {r.cell[i][j] : i \in 1..r.rows, j \in 1..r.cols}

\* numpy.full(shape, v)
Full(h, w, v) ==
  LET F(i, j) == v
  IN MkRaster(h, w, F)

\* numpy broadcasting of a source of shape (sh, sw) onto a target of shape
\* (th, tw): each source axis equals the target axis or has length 1
Broadcasts(sh, sw, th, tw) ==
  /\ (sh = th \/ sh = 1)
  /\ (sw = tw \/ sw = 1)

\* the index of the source cell broadcast onto target index k
BIdx(n, k) == IF n = 1 THEN 1 ELSE k


(***************************************************************************)
(* Raster pyramid operations.                                              *)
(***************************************************************************)
\* a [::2] slice that loses the last index of an odd axis
HalfLen_Floor(n) == n \div 2

\* the length of the slice [::2] of an axis of length n
HalfLen(n) == (n + 1) \div 2

\* downsample: dtm[::2, ::2], the cells [2i, 2j] (0-based) of dtm
downsample(dtm) ==
  LET F(i, j) == dtm.cell[2 * i - 1][2 * j - 1]
  IN MkRaster(HalfLen(dtm.rows), HalfLen(dtm.cols), F)

\* the array seen through d nested [::2, ::2] views of buf
RECURSIVE ViewOf(_, _)
ViewOf(buf, d) == IF d <= 0 THEN buf ELSE ViewOf(downsample(buf), d - 1)

\* buf after the view at depth d was overwritten in place with r (same shape
\* as the view): the cells of the view are the cells [i * 2^d, j * 2^d]
StoreView(buf, d, r) ==
  LET s == Pow2(d)
      F(i, j) == IF (i - 1) % s = 0 /\ (j - 1) % s = 0
                 THEN r.cell[(i - 1) \div s + 1][(j - 1) \div s + 1]
                 ELSE buf.cell[i][j]
  IN MkRaster(buf.rows, buf.cols, F)

\* number of indices r0, r0 + 2, ... below n: the length of a [r0::2] slice
StrideLen(n, r0) == IF n <= r0 THEN 0 ELSE HalfLen(n - r0)

\* whether "out[r0::2, c0::2] = src" is accepted by numpy
CanAssign(out, r0, c0, src) ==
  Broadcasts(src.rows, src.cols, StrideLen(out.rows, r0), StrideLen(out.cols, c0))

\* out after "out[r0::2, c0::2] = src" (r0, c0 are numpy's 0-based offsets)
AssignStrided(out, r0, c0, src) ==
  LET F(i, j) == IF /\ i - 1 >= r0 /\ (i - 1 - r0) % 2 = 0
                    /\ j - 1 >= c0 /\ (j - 1 - c0) % 2 = 0
                 THEN src.cell[BIdx(src.rows, (i - 1 - r0) \div 2 + 1)]
                              [BIdx(src.cols, (j - 1 - c0) \div 2 + 1)]
                 ELSE out.cell[i][j]
  IN MkRaster(out.rows, out.cols, F)

\* a slice that never drops the last index
SliceLen_KeepsAll(n, drop) == n

\* the length of an axis of length n under the slice s0 or s1 of upsample:
\* [:-1] (drop) leaves out the last index, [:] keeps all
SliceLen(n, drop) == IF drop THEN Max2(n - 1, 0) ELSE n

\* dtm[s0, s1]
SliceLast(dtm, dropRow, dropCol) ==
  LET F(i, j) == dtm.cell[i][j]
  IN MkRaster(SliceLen(dtm.rows, dropRow), SliceLen(dtm.cols, dropCol), F)

\* an upsample that leaves out the fourth assignment, out[1::2, 1::2]
upsample_NoDiagonal(dtm, out) ==
  LET s0 == out.rows % 2 = 1
      s1 == out.cols % 2 = 1
      src2 == SliceLast(dtm, s0, FALSE)
      src3 == SliceLast(dtm, FALSE, s1)
  IN IF ~CanAssign(out, 0, 0, dtm) THEN [raised |-> TRUE, out |-> out]
     ELSE LET o1 == AssignStrided(out, 0, 0, dtm)
          IN IF ~CanAssign(o1, 1, 0, src2) THEN [raised |-> TRUE, out |-> o1]
             ELSE LET o2 == AssignStrided(o1, 1, 0, src2)
                  IN IF ~CanAssign(o2, 0, 1, src3)
                     THEN [raised |-> TRUE, out |-> o2]
                     ELSE [raised |-> FALSE,
                           out |-> AssignStrided(o2, 0, 1, src3)]

\* upsample(dtm, out): the four strided assignments in the order of the code;
\* the first one numpy rejects raises ValueError and leaves the earlier ones
\* done.  Returns the exception flag and out as it is left.
upsample(dtm, out) ==
  LET s0 == out.rows % 2 = 1
      s1 == out.cols % 2 = 1
      src2 == SliceLast(dtm, s0, FALSE)
      src3 == SliceLast(dtm, FALSE, s1)
      src4 == SliceLast(dtm, s0, s1)
  IN IF ~CanAssign(out, 0, 0, dtm) THEN [raised |-> TRUE, out |-> out]
     ELSE LET o1 == AssignStrided(out, 0, 0, dtm)
          IN IF ~CanAssign(o1, 1, 0, src2) THEN [raised |-> TRUE, out |-> o1]
             ELSE LET o2 == AssignStrided(o1, 1, 0, src2)
                  IN IF ~CanAssign(o2, 0, 1, src3)
                     THEN [raised |-> TRUE, out |-> o2]
                     ELSE LET o3 == AssignStrided(o2, 0, 1, src3)
                          IN IF ~CanAssign(o3, 1, 1, src4)
                             THEN [raised |-> TRUE, out |-> o3]
                             ELSE [raised |-> FALSE,
                                   out |-> AssignStrided(o3, 1, 1, src4)]

\* upsample by shape: whether numpy accepts all four assignments of a source
\* of shape (sh, sw) into an out of shape (oh, ow)
UpsampleAccepts(sh, sw, oh, ow) ==
  LET s0 == oh % 2 = 1
      s1 == ow % 2 = 1
  IN /\ Broadcasts(sh, sw, StrideLen(oh, 0), StrideLen(ow, 0))
     /\ Broadcasts(SliceLen(sh, s0), sw, StrideLen(oh, 1), StrideLen(ow, 0))
     /\ Broadcasts(sh, SliceLen(sw, s1), StrideLen(oh, 0), StrideLen(ow, 1))
     /\ Broadcasts(SliceLen(sh, s0), SliceLen(sw, s1),
                   StrideLen(oh, 1), StrideLen(ow, 1))

\* the length of an axis of length n seen through d nested [::2] views
RECURSIVE ViewLen(_, _)
ViewLen(n, d) == IF d <= 0 THEN n ELSE ViewLen(HalfLen(n), d - 1)

(***************************************************************************)
(* Cloth relaxation: the array operations of drape_cloth.                  *)
(***************************************************************************)
\* dtm += step
Lift(dtm, s) ==
  LET F(i, j) == dtm.cell[i][j] + s
  IN MkRaster(dtm.rows, dtm.cols, F)

\* whether numpy.minimum(dtm, dsm, out=dtm) is accepted: dsm must broadcast
\* to the shape of dtm, which is both an operand and the output
CanClamp(dtm, dsm) == Broadcasts(dsm.rows, dsm.cols, dtm.rows, dtm.cols)

\* numpy.minimum(dtm, dsm, out=dtm)
ClampTo(dtm, dsm) ==
  LET F(i, j) == Min2(dtm.cell[i][j],
                      dsm.cell[BIdx(dsm.rows, i)][BIdx(dsm.cols, j)])
  IN MkRaster(dtm.rows, dtm.cols, F)

\* the border rule of ndimage's default mode "reflect" for a window of 3:
\* the index one step outside the array is the edge cell itself
Reflect(k, n) == IF k < 1 THEN 1 ELSE IF k > n THEN n ELSE k

Window == {0 - 1, 0, 1}

RECURSIVE SumOver(_, _, _, _)
SumOver(dtm, i, j, offs) ==
  IF offs = {} THEN 0
  ELSE LET o == CHOOSE x \in offs : TRUE
       IN dtm.cell[Reflect(i + o[1], dtm.rows)][Reflect(j + o[2], dtm.cols)]
          + SumOver(dtm, i, j, offs \ {o})

\* ndimage.uniform_filter(dtm, size=3): the mean of the 3x3 window
uniform_filter(dtm) ==
  LET F(i, j) == SumOver(dtm, i, j, Window \X Window)
                   \div (FILTER_SIZE * FILTER_SIZE)
  IN MkRaster(dtm.rows, dtm.cols, F)

(***************************************************************************)
(* State.                                                                  *)
(***************************************************************************)
VARIABLES
  pc,          \* the statement the program is at
  entry,       \* the function the outside caller invoked
  driver,      \* main: the GDAL driver of the source dataset
  destImage,   \* main: the destination dataset: "none", "created", "written"
  dsmIn,       \* the DSM as the caller held it before the call (history)
  dtmIn,       \* the DTM array a direct caller passed, before the call (history)
  schedule,    \* level -> the step and num_iter drape_cloth was called with (history)
  dsmRaster,   \* the caller's DSM array; fit_dtm's parameter dsm is this array
  nodata_val,  \* fit_dtm: the no-data sentinel
  minv,        \* fit_dtm: minimum over the valid cells
  maxv,        \* fit_dtm: maximum over the valid cells
  step,        \* the step parameter handed down the recursion unchanged
  dtmBuf,      \* the DTM array of depth 0; deeper frames hold views of it
  level,       \* recursive_fit_dtm: the level of the running frame
  max_level,   \* recursive_fit_dtm: the max_level of the latest return
  site,        \* the call site of the running drape_cloth
  dstep,       \* drape_cloth: its step parameter
  num_iter,    \* drape_cloth: its num_iter parameter
  cloth,       \* drape_cloth: the array its local name dtm refers to
  aliased,     \* drape_cloth: whether that array is still the caller's array
  outer,       \* drape_cloth: how many values range(num_iter) has yielded
  inner,       \* drape_cloth: how many values range(10) has yielded
  i,           \* drape_cloth: the loop variable i, shared by both loops
  lifts,       \* drape_cloth: how often "dtm += step" has run in this call (history)
  passes,      \* drape_cloth: how often clamp-then-blur has run in this call (history)
  clamps,      \* drape_cloth: how often the clamp of line 81 has run in this call (history)
  ret,         \* the array of the latest return
  err          \* the exception that ended the run, or "none"

vars == <<pc, entry, driver, destImage, dsmIn, dtmIn, schedule, dsmRaster,
          nodata_val, minv, maxv, step, dtmBuf, level, max_level, site, dstep,
          num_iter, cloth, aliased, outer, inner, i, lifts, passes, clamps,
          ret, err>>

\* what the caller chose: never written after the call began
callVars == <<entry, driver, dsmIn, dtmIn, nodata_val>>

fitVars == <<dsmRaster, minv, maxv, step>>

drapeVars == <<site, dstep, num_iter, cloth, aliased, outer, inner, i,
               lifts, passes, clamps>>

\* the value of an array name that is not bound yet
NoRaster == [rows |-> 0, cols |-> 0, cell |-> <<>>]

(***************************************************************************)
(* Inputs of the raster-level specifications.                              *)
(***************************************************************************)
Dims == 1..MaxDim

\* A DSM is laid out from a palette of three values, repeated in row-major
\* order; palettes cover all-sentinel, uniform, gapped and stepped rasters.
Palettes(nd) == [1..3 -> Heights \cup {nd}]

PaletteRaster(h, w, pal) ==
  LET F(a, b) == pal[(((a - 1) * w + (b - 1)) % 3) + 1]
  IN MkRaster(h, w, F)

Drivers == {"GTiff", "NITF", "VRT"}

(***************************************************************************)
(* main: lines 117-163.                                                    *)
(***************************************************************************)
Init ==
  /\ pc = "create_dest"
  /\ entry = "main"
  /\ driver \in Drivers
  /\ destImage = "none"
  /\ nodata_val \in NoDataVals
  /\ \E h \in Dims, w \in Dims :
       \E pal \in Palettes(nodata_val) : dsmRaster = PaletteRaster(h, w, pal)
  /\ dsmIn = dsmRaster
  /\ dtmIn = NoRaster
  /\ schedule = <<>>
  /\ minv = 0 /\ maxv = 0 /\ step = 0
  /\ dtmBuf = NoRaster
  /\ level = 0 /\ max_level = 0 - 1
  /\ site = "none" /\ dstep = 0 /\ num_iter = 0
  /\ cloth = NoRaster /\ aliased = FALSE
  /\ outer = 0 /\ inner = 0 /\ i = 0 - 1
  /\ lifts = 0 /\ passes = 0 /\ clamps = 0
  /\ ret = NoRaster
  /\ err = "none"

\* lines 132-156: the destination dataset is created before the fit runs.
\* A driver without Create() ends the program; for NITF the condition reads
\* the name projection, which is bound nowhere.
CreateDestination ==
  /\ pc = "create_dest"
  /\ CASE driver = "GTiff" ->
            /\ destImage' = "created" /\ pc' = "fit_range" /\ err' = err
       [] driver = "NITF" ->
            /\ destImage' = destImage /\ pc' = "failed" /\ err' = "NameError"
       [] OTHER ->
            /\ destImage' = destImage /\ pc' = "exit" /\ err' = err
  /\ UNCHANGED <<callVars, fitVars, dtmBuf, level, max_level, drapeVars,
                 schedule, ret>>

(***************************************************************************)
(* fit_dtm: lines 85-102.                                                  *)
(***************************************************************************)
\* a selection that forgets to skip the no-data cells
ValidData_KeepsNoData(dsm, nd) == CellValues(dsm)

\* dsm[dsm != nodata_val]
ValidData(dsm, nd) == CellValues(dsm) \ {nd}

\* dsm[dsm == nodata_val] = maxv
FillNoData(dsm, nd, v) ==
  LET F(a, b) == IF dsm.cell[a][b] = nd THEN v ELSE dsm.cell[a][b]
  IN MkRaster(dsm.rows, dsm.cols, F)

\* lines 90-94: dtm = dsm.copy() is a copy that is never read; numpy.min of
\* an empty selection raises ValueError
FitRange ==
  /\ pc = "fit_range"
  /\ LET valid_data == ValidData(dsmRaster, nodata_val)
     IN IF valid_data = {}
        THEN /\ err' = "ValueError" /\ pc' = "failed"
             /\ UNCHANGED <<minv, maxv>>
        ELSE /\ minv' = SetMin(valid_data)
             /\ maxv' = SetMax(valid_data)
             /\ pc' = "fit_fill" /\ err' = err
  /\ UNCHANGED <<callVars, destImage, dsmRaster, step, dtmBuf, level,
                 max_level, drapeVars, schedule, ret>>

\* an initial DTM of zeros instead of the minimum height
InitialDtm_Zeros(dsm, lo) == Full(dsm.rows, dsm.cols, 0)

\* the initial DTM: numpy.full(dsm.shape, minv, dsm.dtype)
InitialDtm(dsm, lo) == Full(dsm.rows, dsm.cols, lo)

\* step = (maxv - minv) / 100
GlobalStep(lo, hi) == (hi - lo) \div RANGE_STEPS

\* lines 97-102: the fill writes into the caller's array; then the call
\* recursive_fit_dtm(dtm, dsm, step) with level = 0
FitFill ==
  /\ pc = "fit_fill"
  /\ dsmRaster' = FillNoData(dsmRaster, nodata_val, maxv)
  /\ step' = GlobalStep(minv, maxv)
  /\ dtmBuf' = InitialDtm(dsmRaster, minv)
  /\ level' = 0
  /\ pc' = "rec_enter"
  /\ UNCHANGED <<callVars, destImage, minv, maxv, max_level, drapeVars,
                 schedule, ret, err>>

(***************************************************************************)
(* recursive_fit_dtm: lines 38-61.  The recursion is linear, so the frames *)
(* are the levels 0..level; the frame at level d holds the views at depth  *)
(* d of dtmBuf and dsmRaster.                                              *)
(***************************************************************************)
\* line 43: if numpy.min(dtm.shape) > 100, for a threshold of t
MustDownsample(dtm, t) == MinSide(dtm) > t

\* the entry of drape_cloth(dtm, dsm, step, num_iter) called on the frame's dtm
EnterDrape(where, s, n) ==
  /\ site' = where
  /\ dstep' = s
  /\ num_iter' = n
  /\ cloth' = ViewOf(dtmBuf', level')
  /\ aliased' = TRUE
  /\ outer' = 0
  /\ inner' = 0
  /\ i' = i
  /\ lifts' = 0 /\ passes' = 0 /\ clamps' = 0
  /\ schedule' = (level' :> [step |-> s, num_iter |-> n]) @@ schedule
  /\ pc' = "drape_outer"

\* lines 43-48: downsample both arrays (two views) and recurse with level+1
RecDescend ==
  /\ pc = "rec_enter"
  /\ MustDownsample(ViewOf(dtmBuf, level), LevelMin)
  /\ level' = level + 1
  /\ pc' = "rec_enter"
  /\ UNCHANGED <<callVars, destImage, fitVars, dtmBuf, max_level, drapeVars,
                 schedule, ret, err>>

\* lines 59-61: the coarsest level calls drape_cloth(dtm, dsm, step, 100)
RecBase ==
  /\ pc = "rec_enter"
  /\ ~MustDownsample(ViewOf(dtmBuf, level), LevelMin)
  /\ UNCHANGED <<dtmBuf, level>>
  /\ EnterDrape("base", step, BASE_ITER)
  /\ UNCHANGED <<callVars, destImage, fitVars, max_level, ret, err>>

\* line 53: step / (2 * 2 ** (max_level - level))
DecayedStep(s, deepest, lvl) == s \div (2 * Pow2(deepest - lvl))

\* an iteration count that is not kept at 1 or more
DecayedIter_NoFloor(deepest, lvl) == BASE_ITER \div Pow2(deepest - lvl)

\* line 55: max(1, int(100 / (2 ** (max_level - level))))
DecayedIter(deepest, lvl) == Max2(1, BASE_ITER \div Pow2(deepest - lvl))

\* lines 48-57 in the frame above the one that returned: upsample the
\* returned array into this frame's dtm, then drape with the decayed step
\* and iteration count
RecAscend ==
  /\ pc = "rec_return"
  /\ level > 0
  /\ level' = level - 1
  /\ LET up == upsample(ret, ViewOf(dtmBuf, level - 1))
     IN /\ dtmBuf' = StoreView(dtmBuf, level - 1, up.out)
        /\ IF up.raised
           THEN /\ err' = "ValueError" /\ pc' = "failed"
                /\ UNCHANGED <<drapeVars, schedule>>
           ELSE /\ err' = err
                /\ EnterDrape("refine", DecayedStep(step, max_level, level'),
                              DecayedIter(max_level, level'))
  /\ UNCHANGED <<callVars, destImage, fitVars, max_level, ret>>

(***************************************************************************)
(* drape_cloth: lines 64-82.                                               *)
(***************************************************************************)
\* the dsm parameter of the running drape_cloth
Ceiling == ViewOf(dsmRaster, level)

\* a drape_cloth that returns without the last intersection check
FinalClamp_Skipped(dtm, dsm) == dtm

\* line 81: one final intersection check, numpy.minimum(dtm, dsm, out=dtm)
FinalClamp(dtm, dsm) == ClampTo(dtm, dsm)

\* the caller's array after an in-place operation left r in the local array
WriteThrough(r) == IF aliased THEN StoreView(dtmBuf, level, r) ELSE dtmBuf

\* a loop that tests the shared variable i, as a counting loop would,
\* instead of its own iterator
RangeHasNext_SharedCounter(k, n) == i + 1 < n

\* lines 69 and 73: whether the iterator of range(n) that has yielded k
\* values yields another one; the iterator keeps its own position and never
\* reads the loop variable
RangeHasNext(k, n) == k < n

\* lines 69-72: range(num_iter) yields the next i; dtm += step
DrapeLift ==
  /\ pc = "drape_outer"
  /\ RangeHasNext(outer, num_iter)
  /\ i' = outer
  /\ outer' = outer + 1
  /\ cloth' = Lift(cloth, dstep)
  /\ dtmBuf' = WriteThrough(cloth')
  /\ lifts' = lifts + 1
  /\ inner' = 0
  /\ pc' = "drape_inner"
  /\ UNCHANGED <<callVars, destImage, fitVars, level, max_level, site, dstep,
                 num_iter, aliased, passes, clamps, schedule, ret, err>>

\* lines 73-77: range(10) yields the next i; clamp in place, then bind dtm
\* to the fresh array uniform_filter returns.  After the tenth pass control
\* is back at the outer loop.
DrapePass ==
  /\ pc = "drape_inner"
  /\ RangeHasNext(inner, INNER_ITER)
  /\ i' = inner
  /\ inner' = inner + 1
  /\ IF CanClamp(cloth, Ceiling)
     THEN LET clamped == ClampTo(cloth, Ceiling)
          IN /\ dtmBuf' = WriteThrough(clamped)
             /\ cloth' = uniform_filter(clamped)
             /\ aliased' = FALSE
             /\ passes' = passes + 1
             /\ pc' = IF RangeHasNext(inner', INNER_ITER)
                      THEN "drape_inner" ELSE "drape_outer"
             /\ err' = err
     ELSE /\ err' = "ValueError" /\ pc' = "failed"
          /\ UNCHANGED <<dtmBuf, cloth, aliased, passes>>
  /\ UNCHANGED <<callVars, destImage, fitVars, level, max_level, site, dstep,
                 num_iter, outer, lifts, clamps, schedule, ret>>

\* lines 81-82 and the return of the caller: the final clamp, return dtm;
\* the base case returns level as max_level (line 61), the recursive case
\* hands on the max_level it received (line 57)
DrapeReturn ==
  /\ pc = "drape_outer"
  /\ ~RangeHasNext(outer, num_iter)
  /\ IF CanClamp(cloth, Ceiling)
     THEN LET clamped == FinalClamp(cloth, Ceiling)
          IN /\ dtmBuf' = WriteThrough(clamped)
             /\ cloth' = clamped
             /\ ret' = clamped
             /\ clamps' = clamps + 1
             /\ max_level' = IF site = "base" THEN level ELSE max_level
             /\ pc' = IF site = "direct" THEN "done" ELSE "rec_return"
             /\ err' = err
     ELSE /\ err' = "ValueError" /\ pc' = "failed"
          /\ UNCHANGED <<dtmBuf, cloth, ret, max_level, clamps>>
  /\ UNCHANGED <<callVars, destImage, fitVars, level, site, dstep, num_iter,
                 aliased, outer, inner, i, lifts, passes, schedule>>

(***************************************************************************)
(* Back in fit_dtm and main.                                               *)
(***************************************************************************)
\* line 102 and line 158: the level-0 frame returns to fit_dtm, which
\* returns the array alone, and main binds it to dtm
FitReturn ==
  /\ pc = "rec_return"
  /\ level = 0
  /\ pc' = IF entry = "main" THEN "write_dest" ELSE "done"
  /\ UNCHANGED <<callVars, destImage, fitVars, dtmBuf, level, max_level,
                 drapeVars, schedule, ret, err>>

\* lines 161-163: destBand.WriteArray(dtm)
WriteDestination ==
  /\ pc = "write_dest"
  /\ destImage' = "written"
  /\ pc' = "done"
  /\ UNCHANGED <<callVars, fitVars, dtmBuf, level, max_level, drapeVars,
                 schedule, ret, err>>

Next ==
  \/ CreateDestination
  \/ FitRange
  \/ FitFill
  \/ RecDescend
  \/ RecBase
  \/ RecAscend
  \/ DrapeLift
  \/ DrapePass
  \/ DrapeReturn
  \/ FitReturn
  \/ WriteDestination

Spec == Init /\ [][Next]_vars

(***************************************************************************)
(* Direct calls of the components (specification SpecBoundary): a caller   *)
(* hands drape_cloth, upsample or recursive_fit_dtm two arrays of any      *)
(* shapes.  The code checks no shape; what happens is what numpy does.     *)
(***************************************************************************)
\* the DSM contents of the direct calls
BoundaryPalettes == {<<Roof, Roof, Roof>>, <<Ground, Roof, Roof>>}

\* the num_iter a direct caller gives drape_cloth
BoundaryIters == {0, 1}

InitBoundary ==
  /\ entry \in {"drape_cloth", "upsample", "recursive_fit_dtm"}
  /\ driver = "none"
  /\ destImage = "none"
  /\ nodata_val = 0 - Unit
  /\ \E h \in Dims, w \in Dims : dtmBuf = Full(h, w, Ground)
  /\ \E h \in Dims, w \in Dims :
       \E pal \in BoundaryPalettes : dsmRaster = PaletteRaster(h, w, pal)
  /\ dsmIn = dsmRaster
  /\ dtmIn = dtmBuf
  /\ schedule = <<>>
  /\ minv = 0 /\ maxv = 0
  /\ step = GlobalStep(Ground, Roof)
  /\ level = 0 /\ max_level = 0 - 1
  /\ outer = 0 /\ inner = 0 /\ i = 0 - 1
  /\ lifts = 0 /\ passes = 0 /\ clamps = 0
  /\ err = "none"
  /\ CASE entry = "drape_cloth" ->
            \* drape_cloth(dtm, dsm, step, num_iter)
            /\ pc = "drape_outer" /\ site = "direct"
            /\ dstep = step /\ num_iter \in BoundaryIters
            /\ cloth = dtmBuf /\ aliased = TRUE
            /\ ret = NoRaster
       [] entry = "upsample" ->
            \* upsample(dtm, out): the coarse array is dsmRaster, out is dtmBuf
            /\ pc = "upsample" /\ site = "none"
            /\ dstep = 0 /\ num_iter = 0
            /\ cloth = NoRaster /\ aliased = FALSE
            /\ ret = dsmRaster
       [] OTHER ->
            \* recursive_fit_dtm(dtm, dsm, step)
            /\ pc = "rec_enter" /\ site = "none"
            /\ dstep = 0 /\ num_iter = 0
            /\ cloth = NoRaster /\ aliased = FALSE
            /\ ret = NoRaster

\* a direct call upsample(dtm, out), lines 16-35
CallUpsample ==
  /\ pc = "upsample"
  /\ LET up == upsample(ret, dtmBuf)
     IN /\ dtmBuf' = up.out
        /\ IF up.raised
           THEN err' = "ValueError" /\ pc' = "failed"
           ELSE err' = err /\ pc' = "done"
  /\ UNCHANGED <<callVars, destImage, fitVars, level, max_level, drapeVars,
                 schedule, ret>>

NextBoundary ==
  \/ CallUpsample
  \/ RecDescend
  \/ RecBase
  \/ RecAscend
  \/ DrapeLift
  \/ DrapePass
  \/ DrapeReturn
  \/ FitReturn

SpecBoundary == InitBoundary /\ [][NextBoundary]_vars

(***************************************************************************)
(* The pyramid at the source's own threshold (specification SpecPyramid).  *)
(* Rasters of more than 100 x 100 cells are followed by shape alone: an    *)
(* array is [rows, cols] with no cells, and every numpy operation is what  *)
(* it does to shapes (the slices taken, the broadcasting rule, the shape   *)
(* of the result).                                                         *)
(***************************************************************************)
\* the largest k for which sides around MIN_SIZE * 2^k are explored
MaxPow == 7

\* sides: the smallest ones, and those next to each MIN_SIZE * 2^k
Sides ==
  (1..3) \cup {MIN_SIZE * Pow2(k) + d : k \in 0..MaxPow, d \in {0 - 1, 0, 1}}

\* global steps: 0 (a flat DSM) and two that every level divides exactly
PyramidSteps == {0, Pow2(MaxPow + 3), 3 * Pow2(MaxPow + 3)}

\* an array followed by shape alone
ShapeOnly(h, w) == [rows |-> h, cols |-> w, cell |-> <<>>]

\* the shape of the [::2, ::2] view at depth d of an array followed by shape
ShapeView(buf, d) == ShapeOnly(ViewLen(buf.rows, d), ViewLen(buf.cols, d))

InitPyramid ==
  /\ pc = "fit_fill"
  /\ entry = "fit_dtm"
  /\ driver = "none"
  /\ destImage = "none"
  /\ nodata_val = 0 - Unit
  /\ \E h \in Sides, w \in Sides : dsmRaster = ShapeOnly(h, w)
  /\ dsmIn = dsmRaster
  /\ dtmIn = NoRaster
  /\ schedule = <<>>
  /\ minv = 0
  /\ maxv \in PyramidSteps
  /\ step = 0
  /\ dtmBuf = NoRaster
  /\ level = 0 /\ max_level = 0 - 1
  /\ site = "none" /\ dstep = 0 /\ num_iter = 0
  /\ cloth = NoRaster /\ aliased = FALSE
  /\ outer = 0 /\ inner = 0 /\ i = 0 - 1
  /\ lifts = 0 /\ passes = 0 /\ clamps = 0
  /\ ret = NoRaster
  /\ err = "none"

\* fit_dtm, lines 99-102: the step, dtm = numpy.full(dsm.shape, ...), and the
\* call of recursive_fit_dtm; maxv - minv is RANGE_STEPS times the step drawn
PyrFitDtm ==
  /\ pc = "fit_fill"
  /\ step' = GlobalStep(minv, maxv * RANGE_STEPS)
  /\ dtmBuf' = ShapeOnly(dsmRaster.rows, dsmRaster.cols)
  /\ level' = 0
  /\ pc' = "rec_enter"
  /\ UNCHANGED <<callVars, destImage, dsmRaster, minv, maxv, max_level,
                 drapeVars, schedule, ret, err>>

\* lines 43-48
PyrDescend ==
  /\ pc = "rec_enter"
  /\ MustDownsample(ShapeView(dtmBuf, level), MIN_SIZE)
  /\ level' = level + 1
  /\ pc' = "rec_enter"
  /\ UNCHANGED <<callVars, destImage, fitVars, dtmBuf, max_level, drapeVars,
                 schedule, ret, err>>

\* the entry of drape_cloth, by shape
PyrEnterDrape(where, s, n) ==
  /\ site' = where
  /\ dstep' = s
  /\ num_iter' = n
  /\ schedule' = (level' :> [step |-> s, num_iter |-> n]) @@ schedule
  /\ pc' = "drape_outer"
  /\ UNCHANGED <<cloth, aliased, outer, inner, i, lifts, passes, clamps>>

\* lines 59-61
PyrBase ==
  /\ pc = "rec_enter"
  /\ ~MustDownsample(ShapeView(dtmBuf, level), MIN_SIZE)
  /\ UNCHANGED <<dtmBuf, level>>
  /\ PyrEnterDrape("base", step, BASE_ITER)
  /\ UNCHANGED <<callVars, destImage, fitVars, max_level, ret, err>>

\* lines 48-57 in the frame above
PyrAscend ==
  /\ pc = "rec_return"
  /\ level > 0
  /\ level' = level - 1
  /\ UNCHANGED dtmBuf
  /\ IF UpsampleAccepts(ret.rows, ret.cols, ViewLen(dtmBuf.rows, level - 1),
                        ViewLen(dtmBuf.cols, level - 1))
     THEN /\ err' = err
          /\ PyrEnterDrape("refine", DecayedStep(step, max_level, level'),
                           DecayedIter(max_level, level'))
     ELSE /\ err' = "ValueError" /\ pc' = "failed"
          /\ UNCHANGED <<drapeVars, schedule>>
  /\ UNCHANGED <<callVars, destImage, fitVars, max_level, ret>>

\* drape_cloth by shape, lines 64-82 (num_iter >= 1): dtm += step keeps the
\* shape, numpy.minimum(dtm, dsm, out=dtm) needs dsm to broadcast to dtm,
\* uniform_filter returns an array of the shape of its input
PyrDrape ==
  /\ pc = "drape_outer"
  /\ IF CanClamp(ShapeView(dtmBuf, level), ShapeView(dsmRaster, level))
     THEN /\ ret' = ShapeView(dtmBuf, level)
          /\ max_level' = IF site = "base" THEN level ELSE max_level
          /\ pc' = "rec_return"
          /\ err' = err
     ELSE /\ err' = "ValueError" /\ pc' = "failed"
          /\ UNCHANGED <<ret, max_level>>
  /\ UNCHANGED <<callVars, destImage, fitVars, dtmBuf, level, drapeVars,
                 schedule>>

\* line 102: the level-0 frame returns to fit_dtm
PyrReturn ==
  /\ pc = "rec_return"
  /\ level = 0
  /\ pc' = "done"
  /\ UNCHANGED <<callVars, destImage, fitVars, dtmBuf, level, max_level,
                 drapeVars, schedule, ret, err>>

NextPyramid ==
  \/ PyrFitDtm
  \/ PyrDescend
  \/ PyrBase
  \/ PyrAscend
  \/ PyrDrape
  \/ PyrReturn

SpecPyramid == InitPyramid /\ [][NextPyramid]_vars

\* the program is sequential: a statement that can run does run
SpecPyramidFair == SpecPyramid /\ WF_vars(NextPyramid)

(***************************************************************************)
(* Properties of fit_dtm as main calls it (specification Spec).            *)
(***************************************************************************)
\* fit_dtm has returned its raster to main
FitReturned == entry = "main" /\ pc \in {"write_dest", "done"}

\* fit_dtm is past the no-data fill (the multiscale driver has been invoked)
PastFill == entry = "main" /\ pc \notin {"create_dest", "fit_range", "fit_fill",
                                         "failed", "exit"}

HasNoData(dsm) == nodata_val \in CellValues(dsm)

AllNoData(dsm) == CellValues(dsm) = {nodata_val}

\* the maximum over the cells of the input that differ from the sentinel
ValidMax == SetMax(CellValues(dsmIn) \ {nodata_val})

ValidMin == SetMin(CellValues(dsmIn) \ {nodata_val})

\* the value the gap-filled input DSM holds at cell (a, b)
GapFilled(a, b) ==
  IF dsmIn.cell[a][b] = nodata_val THEN ValidMax ELSE dsmIn.cell[a][b]

\* C1: once fit_dtm has returned, every cell of the returned raster is at
\* most the corresponding cell of the gap-filled DSM (the input DSM with its
\* no-data cells replaced by the maximum valid height).
C1_DtmBelowFilledDsm ==
  FitReturned =>
    /\ Shape(ret) = Shape(dsmIn)
    /\ \A a \in 1..dsmIn.rows, b \in 1..dsmIn.cols :
         ret.cell[a][b] <= GapFilled(a, b)

\* a fit over three pyramid levels of a DSM with a gap and two heights whose
\* result lies strictly below the ceiling somewhere and touches it elsewhere
C1_Witness ==
  /\ FitReturned
  /\ max_level = 2
  /\ HasNoData(dsmIn)
  /\ \E a \in 1..dsmIn.rows, b \in 1..dsmIn.cols : ret.cell[a][b] < GapFilled(a, b)
  /\ \E a \in 1..dsmIn.rows, b \in 1..dsmIn.cols : ret.cell[a][b] = GapFilled(a, b)

\* C3 (as claimed): a DSM whose cells all equal the sentinel makes the fit
\* fail with EmptyValidDataError, and no destination output exists.
C3_AllNoDataRaisesEmptyValidData ==
  (driver = "GTiff" /\ AllNoData(dsmIn) /\ pc \notin {"create_dest", "fit_range"}) =>
    /\ pc = "failed"
    /\ err = "EmptyValidDataError"
    /\ destImage = "none"

\* C4 (as claimed): when fit_dtm has returned, the caller's DSM array holds
\* the values it held before the call.
C4_CallerDsmUnchanged ==
  FitReturned => dsmRaster = dsmIn

\* C5: from the first invocation of the multiscale driver on, no cell of
\* the DSM ceiling is the sentinel: each cell that held the sentinel holds
\* the maximum over the valid cells, each valid cell is unchanged, and minv
\* and maxv are the minimum and maximum over the valid cells only.
C5_CeilingClosedBeforeRelaxation ==
  PastFill =>
    /\ nodata_val \notin CellValues(dsmRaster)
    /\ Shape(dsmRaster) = Shape(dsmIn)
    /\ \A a \in 1..dsmIn.rows, b \in 1..dsmIn.cols :
         dsmRaster.cell[a][b] =
           IF dsmIn.cell[a][b] = nodata_val THEN ValidMax ELSE dsmIn.cell[a][b]
    /\ minv = ValidMin
    /\ maxv = ValidMax

\* the driver is invoked for the first time on a DSM with a gap, two valid
\* heights and a sentinel larger than both
C5_Witness ==
  /\ entry = "main" /\ pc = "rec_enter" /\ level = 0
  /\ HasNoData(dsmIn)
  /\ {Ground, Roof} \subseteq CellValues(dsmIn)
  /\ nodata_val > Roof

\* C9: if every valid cell of the DSM holds the same value v, every cell of
\* the fitted DTM is v (the tolerance 0.01 x step is 0, the step being 0).
C9_FlatInputFixedPoint ==
  (FitReturned /\ Cardinality(CellValues(dsmIn) \ {nodata_val}) = 1) =>
    \A a \in 1..ret.rows, b \in 1..ret.cols : ret.cell[a][b] = ValidMin

\* a flat DSM with a gap, fitted over three pyramid levels
C9_Witness ==
  /\ FitReturned
  /\ Cardinality(CellValues(dsmIn) \ {nodata_val}) = 1
  /\ HasNoData(dsmIn)
  /\ max_level = 2
  /\ ret.rows = MaxDim /\ ret.cols = MaxDim

(***************************************************************************)
(* Properties of the pyramid (specifications SpecPyramid, SpecPyramidFair).*)
(***************************************************************************)
\* the smaller side of the input DSM
InputMinSide == Min2(dsmIn.rows, dsmIn.cols)

\* ceil(log2(n / 100)) for n > 100, and 0 for n <= 100: the least k with
\* 100 * 2^k >= n
CeilLog2Over100(n) ==
  CHOOSE k \in 0..(MaxPow + 2) :
    /\ 100 * Pow2(k) >= n
    /\ \A j \in 0..(k - 1) : 100 * Pow2(j) < n

\* C2: the fit never fails on a shape (the upsampled coarse result fits the
\* finer level's buffer, whatever the parities), and the raster it returns
\* has the rows and columns of the input DSM.
C2_ShapePreserved ==
  /\ err = "none"
  /\ pc # "failed"
  /\ pc = "done" => (ret.rows = dsmIn.rows /\ ret.cols = dsmIn.cols)

\* a fit that returned over three levels with odd row counts at two levels
\* and an even column count
C2_Witness ==
  /\ pc = "done"
  /\ max_level = 2
  /\ dsmIn.rows % 2 = 1 /\ HalfLen(dsmIn.rows) % 2 = 1
  /\ dsmIn.cols % 2 = 0
  /\ ret.rows = dsmIn.rows /\ ret.cols = dsmIn.cols

\* C6: the recursion terminates; the deepest level it returns is
\* ceil(log2(min(H, W) / 100)), or 0 when min(H, W) <= 100; and once the
\* base case has returned it, every level returns that same value.
C6_DepthIsCeilLog2 ==
  /\ <>(pc = "done")
  /\ [](pc \in {"rec_return", "done"} => max_level = CeilLog2Over100(InputMinSide))
  /\ [][max_level # 0 - 1 => max_level' = max_level]_vars

\* a recursion that returned from depth 3 to the caller
C6_Witness ==
  /\ pc = "done"
  /\ max_level = 3
  /\ InputMinSide = 4 * 100 + 1
  /\ level = 0

\* C7: with deepest level D and global step s, level D is relaxed with
\* step s and 100 outer iterations and each level L < D with step
\* s / (2 * 2^(D-L)) and max(1, floor(100 / 2^(D-L))) iterations; so step and
\* iteration count do not increase towards level 0, and no count is below 1.
C7_DecaySchedule ==
  max_level # 0 - 1 =>
    /\ \A l \in DOMAIN schedule :
         LET k == Pow2(max_level - l)
             n == schedule[l].num_iter
         IN IF l = max_level
            THEN schedule[l].step = step /\ n = 100
            ELSE /\ schedule[l].step * 2 * k = step
                 /\ n >= 1
                 /\ IF k <= 100 THEN n * k <= 100 /\ 100 < (n + 1) * k
                    ELSE n = 1
    /\ \A l1 \in DOMAIN schedule, l2 \in DOMAIN schedule :
         l1 < l2 => /\ schedule[l1].step <= schedule[l2].step
                    /\ schedule[l1].num_iter <= schedule[l2].num_iter

\* a fit over nine levels with a positive step, where 100 / 2^(D-L) falls
\* below 1 at the finest levels
C7_Witness ==
  /\ pc = "done"
  /\ max_level = 8
  /\ step > 0
  /\ schedule[0].num_iter = 1
  /\ schedule[7].num_iter = 50

(***************************************************************************)
(* Properties of the direct calls (specification SpecBoundary).            *)
(***************************************************************************)
\* the two arrays of the call do not correspond: a DTM and a DSM of
\* different shapes, or a coarse array that is not the half of out
Mismatched ==
  IF entry = "upsample"
  THEN Shape(dsmIn) # <<HalfLen(dtmIn.rows), HalfLen(dtmIn.cols)>>
  ELSE Shape(dtmIn) # Shape(dsmIn)

\* C8 (as claimed, numpy's own ValueError counted as the shape error): a
\* call with arrays that do not correspond never completes, and no array is
\* modified before it fails.
C8_MismatchFailsBeforeWriting ==
  Mismatched =>
    /\ pc # "done"
    /\ dtmBuf = dtmIn
    /\ dsmRaster = dsmIn

(***************************************************************************)
(* upsample against downsample (specification SpecBoundary, direct calls   *)
(* upsample(dtm, out) with out of every shape and parity).                 *)
(***************************************************************************)
\* ceil(n / 2)
CeilHalf(n) == (n + 1) \div 2

\* the direct call upsample(coarse, out) is over, and coarse had the shape
\* downsample gives an array of the shape of out
UpsampledFromHalf ==
  /\ entry = "upsample"
  /\ pc # "upsample"
  /\ ret.rows = CeilHalf(dtmIn.rows)
  /\ ret.cols = CeilHalf(dtmIn.cols)

\* C11: after upsample(coarse, out) with coarse of shape ceil(R/2) x
\* ceil(C/2), the call has completed, out has its shape, every cell
\* out[r, c] is coarse[r div 2, c div 2] (none keeps its previous content),
\* and downsample(out) is coarse again.
C11_UpsampleInvertsDownsample ==
  UpsampledFromHalf =>
    /\ pc = "done" /\ err = "none"
    /\ Shape(dtmBuf) = Shape(dtmIn)
    /\ \A r \in 1..dtmBuf.rows, c \in 1..dtmBuf.cols :
         dtmBuf.cell[r][c] = ret.cell[(r - 1) \div 2 + 1][(c - 1) \div 2 + 1]
    /\ downsample(dtmBuf) = ret

\* an out with an odd row count and an even column count was filled from a
\* coarse array whose two rows differ
C11_Witness ==
  /\ UpsampledFromHalf
  /\ pc = "done"
  /\ dtmIn.rows = 3 /\ dtmIn.cols = 2
  /\ ret.cell[1][1] # ret.cell[2][1]
  /\ dtmBuf.cell[3][2] = ret.cell[2][1]
  /\ dtmBuf.cell[3][2] # dtmIn.cell[3][2]

(***************************************************************************)
(* The iteration structure of drape_cloth (specification Spec: the calls   *)
(* of the pyramid, with num_iter 100, 50 and 25).                          *)
(***************************************************************************)
\* a drape_cloth call has returned and no later one has begun
DrapeReturned ==
  /\ site # "none"
  /\ pc \in {"rec_return", "write_dest", "done"}

\* the counts at every point of a running or returned drape_cloth call
DrapeCounts ==
  /\ pc = "drape_outer" =>
       /\ lifts <= num_iter
       /\ passes = INNER_ITER * lifts
       /\ clamps = 0
  /\ pc = "drape_inner" =>
       /\ lifts >= 1 /\ lifts <= num_iter
       /\ passes >= INNER_ITER * (lifts - 1)
       /\ passes < INNER_ITER * lifts
       /\ clamps = 0
  /\ DrapeReturned =>
       /\ lifts = num_iter
       /\ passes = INNER_ITER * num_iter
       /\ clamps = 1

\* the order and the data dependency of the steps of a running call: a lift
\* comes only after the ten passes of the iteration before it and raises
\* the array the last pass left; a pass clamps and blurs the array the step
\* before it left; the final clamp comes after the last pass, on its output
DrapeOrder ==
  /\ lifts' = lifts + 1 =>
       /\ passes = INNER_ITER * lifts
       /\ passes' = passes /\ clamps' = clamps
       /\ cloth' = Lift(cloth, dstep)
  /\ passes' = passes + 1 =>
       /\ lifts' = lifts /\ clamps' = clamps
       /\ cloth' = uniform_filter(ClampTo(cloth, Ceiling))
  /\ clamps' = clamps + 1 =>
       /\ lifts = num_iter /\ passes = INNER_ITER * num_iter
       /\ lifts' = lifts /\ passes' = passes
       /\ ret' = ClampTo(cloth, Ceiling)
  /\ (pc \in {"drape_outer", "drape_inner"} /\ err' = "none") =>
       lifts' + passes' + clamps' = lifts + passes + clamps + 1

\* C12: a call drape_cloth(dtm, dsm, step, n) makes n lifts, each followed
\* by exactly 10 clamp-then-blur passes that read the previous step's
\* output, and then one final clamp: n lifts, 10 * n passes and one clamp
\* in all, whatever the inner loop leaves in the shared loop variable.
C12_DrapeIterationCounts == []DrapeCounts /\ [][DrapeOrder]_vars

\* the refinement call with num_iter = 50 has returned after 50 lifts and
\* 500 passes, the inner loop having left 9 in the shared loop variable
C12_Witness ==
  /\ DrapeReturned
  /\ site = "refine" /\ num_iter = 50
  /\ lifts = 50 /\ passes = 500 /\ clamps = 1
  /\ i = INNER_ITER - 1

(***************************************************************************)
(* Ownership of the rasters of the pyramid (specification Spec).           *)
(***************************************************************************)
\* drape_cloth is running in the recursion frame of the current level
Relaxing == pc \in {"drape_outer", "drape_inner"}

\* C13: a step of the relaxation at a level leaves every cell of the DTM
\* buffers of the finer levels (the dtm arrays of the frames above) as it
\* was, and no step of the relaxation or of the pyramid (descent, upsample)
\* changes a cell of the DSM.
C13_LevelBuffersIsolated ==
  [][/\ Relaxing =>
          \A k \in 0..(level - 1) : ViewOf(dtmBuf', k) = ViewOf(dtmBuf, k)
     /\ (Relaxing \/ pc \in {"rec_enter", "rec_return"}) =>
          dsmRaster' = dsmRaster]_vars

=============================================================================
